---- MODULE Spec2Model ----
(***************************************************************************)
(* A model of the two decoders of vgmtrans that src/ holds:                *)
(*   - PSFFile (src/src/PSFFile.cpp): Load, Decompress, ReadExe, Clear;    *)
(*   - Vab::GetInstrPointers (src/src/formats/Vab.cpp): the program-table  *)
(*     scan and the reconstruction of the VAG (sample) locations.          *)
(* Bytes are the integers 0..255.  A 32-bit unsigned value (UINT,          *)
(* uint32_t) is a pair <<hi, lo>> of 16-bit limbs, so that its arithmetic  *)
(* wraps exactly as the C++ arithmetic does.                               *)
(***************************************************************************)
EXTENDS Integers, Sequences, FiniteSets, TLC

(***************************************************************************)
(* 32-bit unsigned arithmetic.                                             *)
(***************************************************************************)
Limb == 2^16

\* The uint32_t that holds the natural number n (n < 2^31).
U32(n) == <<n \div Limb, n % Limb>>

\* uint32_t addition: the carry out of the high limb is lost.
Add32(a, b) ==
    LET lo == a[2] + b[2]
    IN  <<(a[1] + b[1] + (lo \div Limb)) % Limb, lo % Limb>>

\* a > b on uint32_t.
Gt32(a, b) == a[1] > b[1] \/ (a[1] = b[1] /\ a[2] > b[2])

\* a < b on uint32_t.
Lt32(a, b) == Gt32(b, a)

\* The natural number a uint32_t holds; used only for values that a size
\* check has bounded by the length of a file held in memory.
ToNat(a) == a[1] * Limb + a[2]

(***************************************************************************)
(* RawFile: a file is its sequence of bytes; offsets count from 0.         *)
(***************************************************************************)
\* RawFile::GetBytes(offset, n, buf)
GetBytes(file, offset, n) == SubSeq(file, offset + 1, offset + n)

\* RawFile::GetWord(offset): four bytes, little-endian.
GetWord(file, offset) ==
    <<file[offset + 3] + 256 * file[offset + 4],
      file[offset + 1] + 256 * file[offset + 2]>>

(***************************************************************************)
(* zlib's crc32: the reflected CRC-32 (polynomial 0xEDB88320), computed    *)
(* bit by bit on a uint32_t register.                                      *)
(***************************************************************************)
\* Bitwise exclusive or of two naturals.
RECURSIVE Xor(_, _)
Xor(a, b) ==
    IF a = 0 THEN b
    ELSE IF b = 0 THEN a
    ELSE ((a + b) % 2) + 2 * Xor(a \div 2, b \div 2)

Xor32(a, b) == <<Xor(a[1], b[1]), Xor(a[2], b[2])>>

\* 0xEDB88320
CrcPoly == <<60856, 33568>>

\* 0xFFFFFFFF
AllOnes == <<Limb - 1, Limb - 1>>

\* One step of the bitwise algorithm: c = (c >> 1) ^ (c & 1 ? poly : 0).
CrcShift(c) ==
    LET shifted == <<c[1] \div 2, (c[2] \div 2) + (c[1] % 2) * (Limb \div 2)>>
    IN  IF c[2] % 2 = 1 THEN Xor32(shifted, CrcPoly) ELSE shifted

RECURSIVE CrcShifts(_, _)
CrcShifts(c, n) == IF n = 0 THEN c ELSE CrcShifts(CrcShift(c), n - 1)

\* c ^= byte, then eight shift steps.
CrcByte(c, byte) == CrcShifts(<<c[1], Xor(c[2], byte)>>, 8)

RECURSIVE CrcBytes(_, _)
CrcBytes(c, buf) ==
    IF buf = <<>> THEN c ELSE CrcBytes(CrcByte(c, Head(buf)), Tail(buf))

\* crc32(crc32(0L, Z_NULL, 0), buf, len): the register starts at 0xFFFFFFFF
\* and is complemented at the end.
crc32(buf) == Xor32(CrcBytes(AllOnes, buf), AllOnes)

(***************************************************************************)
(* zlib's uncompress(dest, &destLen, source, sourceLen) is not part of     *)
(* the repository.  Its result is one of four statuses; with Z_OK the      *)
(* destination holds the inflated bytes.                                   *)
(***************************************************************************)
ZStatus == {"Z_OK", "Z_BUF_ERROR", "Z_DATA_ERROR", "Z_MEM_ERROR"}

\* The largest size passed to Decompress and ReadExe.
MaxExeSize == 1

\* The bytes an inflated buffer is made of.
OutBytes == {0, 1}

RECURSIVE SeqsOfLen(_, _)
SeqsOfLen(S, n) ==
    IF n = 0 THEN {<<>>}
    ELSE {<<x>> \o t : x \in S, t \in SeqsOfLen(S, n - 1)}

\* What a call uncompress(buf, &destlen, source, ...) with destlen = cap can
\* give: <<status, contents of buf>>.  An empty source is never a complete
\* zlib stream, so it never gives Z_OK.  After a failure the buffer is not
\* looked at (it is written as empty).
Uncompress(source, cap) ==
    {<<"Z_OK", b>> : b \in IF source = <<>> THEN {} ELSE SeqsOfLen(OutBytes, cap)}
        \cup {<<st, <<>> >> : st \in ZStatus \ {"Z_OK"}}

(***************************************************************************)
(* The tag section.  tags is a std::map<string, string>: here a function   *)
(* from names to values, both sequences of bytes.                          *)
(***************************************************************************)
PSF_TAG_SIG == <<91, 84, 65, 71, 93>>      \* "[TAG]"

PSF_TAG_SIG_LEN == 5

PSF_SIG == <<80, 83, 70>>                  \* "PSF"

EmptyTags == [k \in {} |-> <<>>]

\* strchr(&buf[from], ch) for ch # 0, as an offset into buf, or -1 for NULL:
\* the scan ends at the first NUL.  buf ends with a NUL.
StrChr(buf, from, ch) ==
    LET stop == CHOOSE p \in from..(Len(buf) - 1) :
                    /\ buf[p + 1] \in {ch, 0}
                    /\ \A q \in from..(p - 1) : buf[q + 1] \notin {ch, 0}
    IN  IF buf[stop + 1] = ch THEN stop ELSE -1

\* while (pEnd > pStart && *(unsigned char*)(pEnd - 1) <= 0x20) pEnd--;
RECURSIVE TrimEnd(_, _, _)
TrimEnd(buf, pStart, pEnd) ==
    IF pEnd > pStart /\ buf[pEnd] <= 32
    THEN TrimEnd(buf, pStart, pEnd - 1)
    ELSE pEnd

\* while (pStart < pEnd && *(unsigned char*)pStart <= 0x20) pStart++;
RECURSIVE TrimStart(_, _, _)
TrimStart(buf, pStart, pEnd) ==
    IF pStart < pEnd /\ buf[pStart + 1] <= 32
    THEN TrimStart(buf, pStart + 1, pEnd)
    ELSE pStart

\* The lower_bound / insert of the loop: a name seen before gets "\n" and the
\* value appended, a new name is inserted.
TagsPutOverwrite(t, varName, varVal) ==
    [k \in DOMAIN t \cup {varName} |-> IF k = varName THEN varVal ELSE t[k]]

TagsPut(t, varName, varVal) ==
    IF varName \in DOMAIN t
    THEN [t EXCEPT ![varName] = @ \o <<10>> \o varVal]
    ELSE [k \in DOMAIN t \cup {varName} |-> IF k = varName THEN varVal ELSE t[k]]

\* Where the name and the value of a line lie: the name is cut at the first
\* '=', and both are trimmed.
TagSplit(buf, tagCurPos, pSeparator, pNewLine) ==
    LET pVarNameEnd == TrimEnd(buf, tagCurPos, pSeparator)
        pVarValEnd  == TrimEnd(buf, pSeparator + 1, pNewLine)
        pVarName    == TrimStart(buf, tagCurPos, pVarNameEnd)
        pVarVal     == TrimStart(buf, pSeparator + 1, pVarValEnd)
    IN  [varName |-> SubSeq(buf, pVarName + 1, pVarNameEnd),
         varVal  |-> SubSeq(buf, pVarVal + 1, pVarValEnd)]

\* The loop "while (tagCurPos < tagSectionSize)" over tagSect, a buffer of
\* tagSectionSize bytes and a closing NUL.
RECURSIVE ParseTags(_, _, _, _)
ParseTags(tagSect, tagSectionSize, tagCurPos, t) ==
    IF ~(tagCurPos < tagSectionSize) THEN t
    ELSE
      LET found      == StrChr(tagSect, tagCurPos, 10)
          pNewLine   == IF found = -1 THEN tagSectionSize ELSE found
          buf        == [tagSect EXCEPT ![pNewLine + 1] = 0]
          pSeparator == StrChr(buf, tagCurPos, 61)
      IN  IF pSeparator = -1
          THEN ParseTags(buf, tagSectionSize, pNewLine + 1, t)
          ELSE LET nv == TagSplit(buf, tagCurPos, pSeparator, pNewLine)
               IN  ParseTags(buf, tagSectionSize, pNewLine + 1,
                             TagsPut(t, nv.varName, nv.varVal))

\* The flag hasTagSection of Load.  Load computes it and never reads it.
HasTagSection(file, tagSectionOffset, tagSectionSize) ==
    /\ tagSectionSize >= PSF_TAG_SIG_LEN
    /\ GetBytes(file, tagSectionOffset, PSF_TAG_SIG_LEN) = PSF_TAG_SIG

(***************************************************************************)
(* The state: a PSFFile object, one evaluation of the header check, and a  *)
(* run of Vab::GetInstrPointers.                                           *)
(***************************************************************************)
VARIABLES
    hdr,            \* the header check: the three values given and the outcome
    bank,           \* the bytes GetInstrPointers reads: offsets, counts, tables
    pc,             \* where GetInstrPointers is: idle, vagloop, done, crashed
    ret,            \* what GetInstrPointers returned: "true", "false", or "none" so far
    aInstrs,        \* vector<VGMInstr*> aInstrs: <<instrNum, dwOffset>> records
    vagLocations,   \* std::vector<SizeOffsetPair> vagLocations
    totalVAGSize,   \* uint32_t totalVAGSize
    vagIndex,       \* the i of the loop over the VAG sizes
    vagEntries,     \* vagOffset, vagSize and the verdict of each iteration so far
    version,        \* BYTE version
    exeCRC,         \* uint32_t exeCRC
    exeData,        \* DataSeg* exeData: the decompressed program
    exeCompData,    \* DataSeg* exeCompData: the compressed program
    reservedData,   \* DataSeg* reservedData
    tags,           \* map<string, string> tags
    decompressed,   \* bool decompressed
    errorstr,       \* wchar_t* errorstr ("NULL" for the null pointer)
    call,           \* the last call on the object: what it was given and returned
    lastOutput      \* what the last Decompress that returned true produced

psfVars == <<version, exeCRC, exeData, exeCompData, reservedData, tags,
             decompressed, errorstr, call, lastOutput>>

hdrVars == <<hdr>>

vabVars == <<bank, pc, ret, aInstrs, vagLocations, totalVAGSize, vagIndex,
             vagEntries>>

vars == <<psfVars, hdrVars, vabVars>>

NoCall == [op |-> "none", ok |-> TRUE, status |-> "none", file |-> <<>>,
           size |-> 0, wasDecompressed |-> FALSE]

\* The consistency check on the section lengths, in uint32_t arithmetic.
HeaderInconsistent(fileSize, reservedSize, exeSize) ==
    \/ Gt32(reservedSize, fileSize)
    \/ Gt32(exeSize, fileSize)
    \/ Gt32(Add32(Add32(U32(16), reservedSize), exeSize), fileSize)

\* PSFFile::Clear(), as the fields of the object; exeCRC is not one of the
\* fields Clear() resets.
Cleared(crc) ==
    [version |-> 0, exeCRC |-> crc, exeData |-> <<>>, exeCompData |-> <<>>,
     reservedData |-> <<>>, tags |-> EmptyTags, decompressed |-> FALSE,
     errorstr |-> "NULL", ok |-> TRUE]

\* The CRC failure branch of Load, o being the object once zexebuf is loaded.
CrcFailureKeepsPayload(o) ==
    [o EXCEPT !.errorstr = "CRC failure - executable data is corrupt",
              !.ok = FALSE]

CrcFailure(o) ==
    [o EXCEPT !.errorstr = "CRC failure - executable data is corrupt",
              !.exeCompData = <<>>,
              !.ok = FALSE]

\* Load from the CRC check on: the reserved section, then the tag section.
\* The parse loop runs whatever hasTagSection is.
LoadSections(o, file, reservedSize, exeSize) ==
    LET fileSize         == Len(file)
        tagSectionOffset == 16 + reservedSize + exeSize
        tagSectionSize   == fileSize - tagSectionOffset
        tagSect          == GetBytes(file, tagSectionOffset, tagSectionSize) \o <<0>>
    IN  [o EXCEPT !.reservedData = GetBytes(file, 16, reservedSize),
                  !.tags = ParseTags(tagSect, tagSectionSize, PSF_TAG_SIG_LEN, o.tags)]

\* The compressed program section of a file whose header passed the check.
ReadExeSectionNoReserved(file, reservedSize, exeSize) ==
    GetBytes(file, 16, exeSize)

ReadExeSection(file, reservedSize, exeSize) ==
    GetBytes(file, 16 + reservedSize, exeSize)

\* PSFFile::Load(file) on an object whose exeCRC is crc: the object after the
\* call, with the value returned in ok.
LoadFile(crc, file) ==
    LET c0 == Cleared(crc)
    IN
    IF Lt32(U32(Len(file)), U32(16))
    THEN [c0 EXCEPT !.errorstr = "PSF too small - likely corrupt", !.ok = FALSE]
    ELSE IF GetBytes(file, 0, 3) # PSF_SIG
    THEN [c0 EXCEPT !.errorstr = "Invalid PSF signature", !.ok = FALSE]
    ELSE
      LET reservedSize == GetWord(file, 4)
          exeSize      == GetWord(file, 8)
          c1 == [c0 EXCEPT !.version = file[4], !.exeCRC = GetWord(file, 12)]
      IN  IF HeaderInconsistent(U32(Len(file)), reservedSize, exeSize)
          THEN [c1 EXCEPT !.errorstr = "PSF header is inconsistent", !.ok = FALSE]
          ELSE
            LET zexebuf == ReadExeSection(file, ToNat(reservedSize), ToNat(exeSize))
                c2 == [c1 EXCEPT !.exeCompData = zexebuf]
            IN  IF c2.exeCRC # crc32(zexebuf)
                THEN CrcFailure(c2)
                ELSE LoadSections(c2, file, ToNat(reservedSize), ToNat(exeSize))

(***************************************************************************)
(* The files given to Load.                                                *)
(***************************************************************************)
\* A uint32_t as the four bytes GetWord reads it from.
LE32(u) == <<u[2] % 256, u[2] \div 256, u[1] % 256, u[1] \div 256>>

\* The 16-byte header: "PSF", the version, the two section lengths and the
\* CRC of the program section.
Header(sig, v, reservedSize, exeSize, crc) ==
    sig \o <<v>> \o LE32(reservedSize) \o LE32(exeSize) \o LE32(crc)

\* The container built from a version, the reserved bytes and the
\* compressed program bytes.
Container(v, r, p) ==
    Header(PSF_SIG, v, U32(Len(r)), U32(Len(p)), crc32(p)) \o r \o p

Versions == {1, 2}

ReservedChoices == {<<>>, <<9>>}

PayloadChoices == {<<>>, <<120>>, <<120, 1>>}

\* "a=b\n"
LineAB == <<97, 61, 98, 10>>

\* What follows the program section.
TrailingChoices ==
    { <<>>,
      <<91, 84, 65>>,                       \* "[TA": shorter than the marker
      LineAB,                               \* four bytes, no marker
      PSF_TAG_SIG,                          \* the marker alone
      PSF_TAG_SIG \o LineAB,                \* a tag section
      <<91, 84, 65, 71, 125>> \o LineAB,    \* "[TAG}" and a line
      <<120, 120, 120, 120, 120, 120>> \o LineAB }

\* The ways a container is damaged.
Damages == {"badcrc", "bitflip", "badsig", "reservedPlus1", "hugeReserved",
            "hugeExe", "truncated"}

Damaged(kind, v, r, p, t) ==
    CASE kind = "badcrc" ->
            Header(PSF_SIG, v, U32(Len(r)), U32(Len(p)), crc32(p \o <<1>>)) \o r \o p \o t
      [] kind = "bitflip" ->
            Header(PSF_SIG, v, U32(Len(r)), U32(Len(p)), crc32(p)) \o r
                \o [i \in 1..Len(p) |-> IF i = 1 THEN Xor(p[i], 1) ELSE p[i]] \o t
      [] kind = "badsig" ->
            Header(<<80, 83, 71>>, v, U32(Len(r)), U32(Len(p)), crc32(p)) \o r \o p \o t
      [] kind = "reservedPlus1" ->
            Header(PSF_SIG, v, U32(Len(r) + 1), U32(Len(p)), crc32(p)) \o r \o p \o t
      [] kind = "hugeReserved" ->
            Header(PSF_SIG, v, <<Limb - 1, Limb - 16>>, U32(Len(p)), crc32(p)) \o r \o p \o t
      [] kind = "hugeExe" ->
            Header(PSF_SIG, v, U32(Len(r)), <<Limb - 1, Limb - 1>>, crc32(p)) \o r \o p \o t
      [] kind = "truncated" ->
            SubSeq(Container(v, r, p), 1, 15)

Files ==
    {Container(v, r, p) : v \in Versions, r \in ReservedChoices, p \in PayloadChoices}
    \cup {Container(1, r, p) \o t :
            r \in ReservedChoices, p \in {<<>>, <<120>>}, t \in TrailingChoices}
    \cup {Damaged(k, 1, r, p, <<>>) :
            k \in Damages, r \in ReservedChoices, p \in PayloadChoices}
    \cup {Damaged(k, 1, r, <<120>>, PSF_TAG_SIG \o LineAB) :
            k \in {"badcrc", "bitflip", "reservedPlus1"}, r \in ReservedChoices}

(***************************************************************************)
(* The operations of a PSFFile.                                            *)
(***************************************************************************)
\* PSFFile::PSFFile(void): the three DataSegs are created and Clear() runs.
\* exeCRC is left as it is; it is read only after Load has set it.
PsfInit ==
    /\ version = 0
    /\ exeCRC = <<0, 0>>
    /\ exeData = <<>>
    /\ exeCompData = <<>>
    /\ reservedData = <<>>
    /\ tags = EmptyTags
    /\ decompressed = FALSE
    /\ errorstr = "NULL"
    /\ call = NoCall
    /\ lastOutput = <<>>

\* bool PSFFile::Load(RawFile* file)
Load(file) ==
    \E o \in {LoadFile(exeCRC, file)} :
        /\ version' = o.version
        /\ exeCRC' = o.exeCRC
        /\ exeData' = o.exeData
        /\ exeCompData' = o.exeCompData
        /\ reservedData' = o.reservedData
        /\ tags' = o.tags
        /\ decompressed' = o.decompressed
        /\ errorstr' = o.errorstr
        /\ call' = [op |-> "Load", ok |-> o.ok, status |-> "none", file |-> file,
                    size |-> 0, wasDecompressed |-> decompressed]
        /\ lastOutput' = <<>>
        /\ UNCHANGED <<hdrVars, vabVars>>

\* The value Decompress returns for what uncompress returned.
DecompressOk(status) == status = "Z_OK"

\* bool PSFFile::Decompress(size_t decompressed_size)
Decompress(decompressed_size) ==
    IF decompressed_size = 0
    THEN /\ exeData' = <<>>
         /\ errorstr' = IF Len(exeCompData) = 0 THEN errorstr ELSE "Decompression failed"
         /\ call' = [op |-> "Decompress", ok |-> Len(exeCompData) = 0,
                     status |-> "none", file |-> <<>>, size |-> 0,
                     wasDecompressed |-> decompressed]
         /\ lastOutput' = IF Len(exeCompData) = 0 THEN <<>> ELSE lastOutput
         /\ UNCHANGED <<version, exeCRC, exeCompData, reservedData, tags, decompressed>>
         /\ UNCHANGED <<hdrVars, vabVars>>
    ELSE \E r \in Uncompress(exeCompData, decompressed_size) :
            /\ exeData' = IF DecompressOk(r[1]) THEN r[2] ELSE exeData
            /\ decompressed' = IF DecompressOk(r[1]) THEN TRUE ELSE decompressed
            /\ errorstr' = IF DecompressOk(r[1]) THEN errorstr ELSE "Decompression failed"
            /\ call' = [op |-> "Decompress", ok |-> DecompressOk(r[1]),
                        status |-> r[1], file |-> <<>>, size |-> decompressed_size,
                        wasDecompressed |-> decompressed]
            /\ lastOutput' = IF DecompressOk(r[1]) THEN r[2] ELSE lastOutput
            /\ UNCHANGED <<version, exeCRC, exeCompData, reservedData, tags>>
            /\ UNCHANGED <<hdrVars, vabVars>>

\* The value ReadExe returns for what uncompress returned.
ReadExeOkUnlessBufError(status) == status # "Z_BUF_ERROR"

ReadExeOk(status) == status # "Z_DATA_ERROR"

\* bool PSFFile::ReadExe(BYTE* buf, size_t readlen) const
ReadExe(readlen) ==
    \E r \in Uncompress(exeCompData, readlen) :
        /\ call' = [op |-> "ReadExe", ok |-> ReadExeOk(r[1]), status |-> r[1],
                    file |-> <<>>, size |-> readlen, wasDecompressed |-> decompressed]
        /\ UNCHANGED <<version, exeCRC, exeData, exeCompData, reservedData, tags,
                       decompressed, errorstr, lastOutput>>
        /\ UNCHANGED <<hdrVars, vabVars>>

\* PSFFile::PSFFile(RawFile* file): the constructor that loads.  It runs once,
\* on the object being built.
Construct(file) ==
    /\ call.op = "none"
    /\ Load(file)

(***************************************************************************)
(* The header check on its own, on lengths up to 2^32 - 1: Load applies    *)
(* HeaderInconsistent to file->size(), GetWord(4) and GetWord(8).          *)
(***************************************************************************)
\* file->size() of the files checked: all at least 0x10.
HeaderFileSizes ==
    {U32(16), U32(17), U32(48), <<Limb \div 2, 0>>, <<Limb \div 2, 16>>,
     <<Limb - 1, Limb - 1>>}

\* The lengths a header declares.
HeaderLengths ==
    {U32(0), U32(1), U32(16), U32(32), <<(Limb \div 2) - 1, Limb - 16>>,
     <<Limb \div 2, 0>>, <<Limb - 1, Limb - 16>>, <<Limb - 1, Limb - 1>>}

HdrInit == hdr = [fileSize |-> U32(16), reservedSize |-> U32(0),
                  exeSize |-> U32(0), result |-> "none"]

\* Lines 66-73 of Load for a file of fileSize bytes with a valid signature.
CheckHeader(fileSize, reservedSize, exeSize) ==
    /\ hdr' = [fileSize |-> fileSize, reservedSize |-> reservedSize,
               exeSize |-> exeSize,
               result |-> IF HeaderInconsistent(fileSize, reservedSize, exeSize)
                          THEN "PSF header is inconsistent"
                          ELSE "pass"]
    /\ UNCHANGED <<psfVars, vabVars>>

(***************************************************************************)
(* The tag sections given to the loading constructor.                      *)
(***************************************************************************)
\* The most lines a generated tag section has.
MaxTagLines == 3

LineTemplates ==
    { <<97, 61, 98>>,                   \* "a=b"
      <<97, 61, 99>>,                   \* "a=c"
      <<98, 61, 97>>,                   \* "b=a"
      <<32, 97, 9, 61, 32, 98, 32>>,    \* " a\t= b "
      <<97, 98>>,                       \* "ab": no '='
      <<>>,                             \* a blank line
      <<61, 98>>,                       \* "=b": an empty name
      <<97, 61, 98, 61, 99>>,           \* "a=b=c"
      <<97, 61, 98, 32, 99, 13>>,       \* "a=b c\r"
      <<98, 0>> }                       \* "b" and a NUL

RECURSIVE JoinLines(_)
JoinLines(ls) ==
    IF ls = <<>> THEN <<>>
    ELSE IF Len(ls) = 1 THEN ls[1]
    ELSE ls[1] \o <<10>> \o JoinLines(Tail(ls))

TagSections ==
    LET lineSeqs == UNION {SeqsOfLen(LineTemplates, n) : n \in 0..MaxTagLines}
    IN  {JoinLines(ls) : ls \in lineSeqs}
            \cup {JoinLines(ls) \o <<10>> : ls \in lineSeqs}

TagFiles == {Container(1, <<>>, <<>>) \o PSF_TAG_SIG \o sec : sec \in TagSections}

(***************************************************************************)
(* Vab::GetInstrPointers.  The bank is what the function reads of the      *)
(* file: dwOffset and GetEndOffset(), the two counts of the header, the    *)
(* number of tones of the programs (tones lists the slots that are not     *)
(* all zero), and the table of VAG sizes (in units of 8 bytes).  Offsets   *)
(* here stay far below 2^32.                                               *)
(***************************************************************************)
\* The byte at offCurrProg, for slot i: GetByte(offProgs + i * 16).
NumTones(b, i) == IF i \in DOMAIN b.tones THEN b.tones[i] ELSE 0

\* GetShort(offVAGOffsets + k * 2)
VagTableEntry(b, k) == b.vagTable[k + 1]

OffProgs(b) == b.dwOffset + 32

OffToneAttrs(b) == OffProgs(b) + (16 * 128)

OffVAGOffsets(b) == OffToneAttrs(b) + (32 * 16 * b.numPrograms)

VagStartOffset(b) == VagTableEntry(b, 0) * 8

\* offCurrToneAttrs for slot i, nInstrs being aInstrs.size().
ToneAttrOffsetBySlot(offToneAttrs, nInstrs, i) == offToneAttrs + (i * 32 * 16)

ToneAttrOffset(offToneAttrs, nInstrs, i) == offToneAttrs + (nInstrs * 32 * 16)

\* The body of the loop for slot i.  scan is aInstrs and whether the loop has
\* been left by its break.
ScanSlot(b, i, scan) ==
    LET offCurrToneAttrs == ToneAttrOffset(OffToneAttrs(b), Len(scan.instrs), i)
    IN  IF scan.stopped THEN scan
        ELSE IF offCurrToneAttrs + (32 * 16) > b.nEndOffset
        THEN [scan EXCEPT !.stopped = TRUE]
        ELSE IF NumTones(b, i) > 32
        THEN scan                   \* a warning is logged
        ELSE IF NumTones(b, i) # 0
        THEN [scan EXCEPT !.instrs =
                 Append(@, [instrNum |-> i, dwOffset |-> offCurrToneAttrs])]
        ELSE scan

\* The loop "for (uint32_t i = 0; i < 128; i++)" over the slots first..last,
\* in increasing order (halved so that the evaluation stays shallow).
RECURSIVE ScanSlots(_, _, _, _)
ScanSlots(b, first, last, scan) ==
    IF first = last THEN ScanSlot(b, first, scan)
    ELSE LET mid == (first + last) \div 2
             left == ScanSlots(b, first, mid, scan)
         IN  IF left.stopped THEN left ELSE ScanSlots(b, mid + 1, last, left)

ScanPrograms(b, instrs) ==
    ScanSlots(b, 0, 127, [instrs |-> instrs, stopped |-> FALSE]).instrs

\* The most VAG sizes a generated bank declares.
MaxVAGs == 3

\* The slots of the program table whose first byte is chosen; the others
\* hold 0 tones.
SpecialSlots == {0, 1, 127}

ToneChoices == {0, 1, 32, 33}

ToneTables == [SpecialSlots -> ToneChoices]

NoTones == [i \in {} |-> 0]

\* Entries of the VAG size table.
VagSizeChoices == {0, 1, 400}

\* Banks that exercise the program scan.
ProgBanks ==
    {[dwOffset |-> dw, nEndOffset |-> dw + 32 + 2048 + room, numPrograms |-> np,
      numVAGs |-> 1, tones |-> t, vagTable |-> [k \in 1..(MaxVAGs + 1) |-> 0]] :
        dw \in {0, 16}, room \in {511, 512, 1024, 1535, 4096},
        np \in {0, 1, 129}, t \in ToneTables}

\* Banks that exercise the VAG size table.
VagBanks ==
    {[dwOffset |-> 0, nEndOffset |-> 32 + 2048 + room, numPrograms |-> np,
      numVAGs |-> nv, tones |-> NoTones, vagTable |-> vt] :
        room \in {512, 4096}, np \in {0, 1},
        nv \in (0..MaxVAGs) \cup {256},
        vt \in [1..(MaxVAGs + 1) -> VagSizeChoices]}

Banks == ProgBanks \cup VagBanks

VabInit ==
    /\ bank = [dwOffset |-> 0, nEndOffset |-> 0, numPrograms |-> 0, numVAGs |-> 0,
               tones |-> NoTones,
               vagTable |-> [k \in 1..(MaxVAGs + 1) |-> 0]]
    /\ pc = "idle"
    /\ ret = "none"
    /\ aInstrs = <<>>
    /\ vagLocations = <<>>
    /\ totalVAGSize = 0
    /\ vagIndex = 0
    /\ vagEntries = <<>>

\* GetInstrPointers up to the loop over the VAG sizes: the two counts are
\* checked, the 128 slots are scanned, and the VAG size table is entered if
\* it lies inside the file.
GetInstrPointers(b) ==
    /\ pc = "idle"
    /\ bank' = b
    /\ IF b.numPrograms > 128 \/ b.numVAGs > 255
       THEN /\ ret' = "false"
            /\ pc' = "done"
            /\ UNCHANGED <<aInstrs, totalVAGSize>>
       ELSE /\ aInstrs' = ScanPrograms(b, aInstrs)
            /\ IF OffVAGOffsets(b) + (2 * 256) <= b.nEndOffset
               THEN /\ pc' = "vagloop"
                    /\ totalVAGSize' = VagStartOffset(b)
                    /\ ret' = "none"
               ELSE /\ pc' = "done"
                    /\ ret' = "true"
                    /\ UNCHANGED totalVAGSize
    /\ UNCHANGED <<vagLocations, vagIndex, vagEntries>>
    /\ UNCHANGED <<psfVars, hdrVars>>

\* What a read past the end of vagLocations can find.
GarbagePairs == {[offset |-> 0, size |-> 0], [offset |-> 8, size |-> 16]}

\* The values vagLocations[i - 1] can give at iteration i > 0: the element,
\* or, when the vector has no such element, whatever lies there.
ReadPrevious(locs, i) ==
    IF Len(locs) > i - 1 THEN {locs[i]} ELSE GarbagePairs

\* vagOffset of iteration i, prev being what vagLocations[i - 1] gave.
VagOffset(b, i, prev) ==
    IF i = 0 THEN VagStartOffset(b)
    ELSE VagStartOffset(b) + prev.offset + prev.size

\* One iteration of "for (uint32_t i = 0; i < numVAGs; i++)".
VagIteration ==
    /\ pc = "vagloop"
    /\ vagIndex < bank.numVAGs
    /\ \/ \E prev \in IF vagIndex = 0 THEN {[offset |-> 0, size |-> 0]}
                      ELSE ReadPrevious(vagLocations, vagIndex) :
            LET vagOffset == VagOffset(bank, vagIndex, prev)
                vagSize   == VagTableEntry(bank, vagIndex + 1) * 8
                valid     == vagOffset + vagSize <= bank.nEndOffset
            IN  /\ vagLocations' =
                      IF valid
                      THEN Append(vagLocations, [offset |-> vagOffset, size |-> vagSize])
                      ELSE vagLocations
                /\ totalVAGSize' = IF valid THEN totalVAGSize + vagSize ELSE totalVAGSize
                /\ vagEntries' = Append(vagEntries,
                      [offset |-> vagOffset, size |-> vagSize, valid |-> valid])
                /\ vagIndex' = vagIndex + 1
                /\ UNCHANGED pc
       \/ \* the read past the end faults
          /\ vagIndex > 0
          /\ ~(Len(vagLocations) > vagIndex - 1)
          /\ pc' = "crashed"
          /\ UNCHANGED <<vagLocations, totalVAGSize, vagEntries, vagIndex>>
    /\ UNCHANGED <<bank, ret, aInstrs>>
    /\ UNCHANGED <<psfVars, hdrVars>>

\* The end of the loop: GetInstrPointers returns true.
VagFinish ==
    /\ pc = "vagloop"
    /\ ~(vagIndex < bank.numVAGs)
    /\ pc' = "done"
    /\ ret' = "true"
    /\ UNCHANGED <<bank, aInstrs, vagLocations, totalVAGSize, vagIndex, vagEntries>>
    /\ UNCHANGED <<psfVars, hdrVars>>

(***************************************************************************)
(* The specifications.                                                     *)
(***************************************************************************)
Init == PsfInit /\ HdrInit /\ VabInit

\* One PSFFile, loaded, decompressed and read any number of times.
Next ==
    \/ \E file \in Files : Load(file)
    \/ \E n \in 0..MaxExeSize : Decompress(n)
    \/ \E n \in 0..MaxExeSize : ReadExe(n)

Spec == Init /\ [][Next]_vars

\* The header check on every combination of the three lengths.
HeaderNext ==
    \E fileSize \in HeaderFileSizes, reservedSize \in HeaderLengths,
       exeSize \in HeaderLengths : CheckHeader(fileSize, reservedSize, exeSize)

SpecHeader == Init /\ [][HeaderNext]_vars

\* A PSFFile built from a file that ends with a tag section.
TagsNext == \E file \in TagFiles : Construct(file)

SpecTags == Init /\ [][TagsNext]_vars

\* One run of GetInstrPointers on a bank.
VabNext ==
    \/ \E b \in Banks : GetInstrPointers(b)
    \/ VagIteration
    \/ VagFinish

SpecVab == Init /\ [][VabNext]_vars

(***************************************************************************)
(* What the claims speak of.                                               *)
(***************************************************************************)
Range(f) == {f[k] : k \in DOMAIN f}

BeginsWithMarker(t) == Len(t) >= 5 /\ SubSeq(t, 1, 5) = <<91, 84, 65, 71, 93>>

\* The last call was a Load that read a full header with the signature.
LoadedWithSignature ==
    /\ call.op = "Load"
    /\ Len(call.file) >= 16
    /\ SubSeq(call.file, 1, 3) = <<80, 83, 70>>

\* The bytes of the loaded file after the two sections its header declares.
TrailingRegion ==
    LET r == ToNat(GetWord(call.file, 4))
        e == ToNat(GetWord(call.file, 8))
    IN  SubSeq(call.file, 16 + r + e + 1, Len(call.file))

\* The exact sum 16 + r + e as <<multiple of 2^16, rest>>, without wrapping.
ExactSum(r, e) ==
    LET lo == 16 + r[2] + e[2]
    IN  <<r[1] + e[1] + (lo \div Limb), lo % Limb>>

\* C1: for every header and every source length of at least 16 bytes, the
\* header check fails whenever the exact sum 16 + reservedSize + payloadSize
\* exceeds the source length, also when the sum wraps in 32 bits, and it
\* passes when the sum equals the source length.
C1_SizeGateNeverWraps ==
    hdr.result # "none" =>
        LET sum == ExactSum(hdr.reservedSize, hdr.exeSize)
        IN  /\ Gt32(sum, hdr.fileSize) => hdr.result = "PSF header is inconsistent"
            /\ sum = hdr.fileSize => hdr.result = "pass"

\* C2: after a Load that succeeded on a file whose trailing region does not
\* begin with "[TAG]" (or is shorter than 5 bytes), the tag mapping is empty.
C2_NoTagsWithoutMarker ==
    (call.op = "Load" /\ call.ok /\ ~BeginsWithMarker(TrailingRegion))
        => DOMAIN tags = {}

\* The stored checksum of the loaded file differs from the CRC-32 of the
\* compressed program section its header declares.
ChecksumMismatch ==
    /\ LoadedWithSignature
    /\ ~HeaderInconsistent(U32(Len(call.file)), GetWord(call.file, 4),
                           GetWord(call.file, 8))
    /\ GetWord(call.file, 12) #
          crc32(SubSeq(call.file, 16 + ToNat(GetWord(call.file, 4)) + 1,
                       16 + ToNat(GetWord(call.file, 4))
                          + ToNat(GetWord(call.file, 8))))

\* C3: a Load of a file whose stored checksum differs from the CRC-32 of its
\* compressed payload fails, and leaves the compressed payload, the reserved
\* data and the tags empty and the decompressed flag false, whatever the
\* object held before.
C3_ChecksumFailureLeavesNothing ==
    ChecksumMismatch =>
        /\ ~call.ok
        /\ exeCompData = <<>>
        /\ reservedData = <<>>
        /\ DOMAIN tags = {}
        /\ decompressed = FALSE

\* C3 happens: a checksum failure, with a non-empty payload, on an object that
\* held a decompressed program.
C3_Witness ==
    /\ ChecksumMismatch
    /\ call.wasDecompressed
    /\ ToNat(GetWord(call.file, 8)) > 0
    /\ ~call.ok

\* C4: loading the container built from a version, reserved bytes and payload
\* bytes (with the CRC-32 of the payload) succeeds and gives back exactly
\* that version, those reserved bytes and those payload bytes, with the
\* decompressed flag false.
C4_RoundTrip ==
    \A v \in Versions, r \in ReservedChoices, p \in PayloadChoices :
        (call.op = "Load" /\ call.file = Container(v, r, p)) =>
            /\ call.ok
            /\ version = v
            /\ reservedData = r
            /\ exeCompData = p
            /\ decompressed = FALSE

\* C4 happens: a container with reserved bytes and a payload was loaded.
C4_Witness ==
    /\ call.op = "Load"
    /\ call.file = Container(2, <<9>>, <<120, 1>>)
    /\ call.ok
    /\ version = 2

\* C5: whenever the decompressed flag is true, the decompressed buffer holds
\* the output of the most recent Decompress that succeeded.
C5_FlagMeansBufferHoldsLastOutput ==
    decompressed => exeData = lastOutput

\* C6, as claimed: ReadExe fails if and only if uncompress reported that the
\* destination is too small (Z_BUF_ERROR), and Decompress fails for every
\* status other than Z_OK.
C6_ReadExeFailsOnlyOnBufError ==
    /\ call.op = "ReadExe" => (~call.ok <=> call.status = "Z_BUF_ERROR")
    /\ (call.op = "Decompress" /\ call.size > 0)
          => (call.ok <=> call.status = "Z_OK")

\* C6, amended: ReadExe fails if and only if uncompress reported corrupt
\* input (Z_DATA_ERROR); every other status, Z_BUF_ERROR included, is
\* reported as success.  Decompress fails for every status other than Z_OK.
C6_ReadExeFailsOnlyOnDataError ==
    /\ call.op = "ReadExe" => (~call.ok <=> call.status = "Z_DATA_ERROR")
    /\ (call.op = "Decompress" /\ call.size > 0)
          => (call.ok <=> call.status = "Z_OK")

\* C6 happens: ReadExe returned true although the destination was too small.
C6_Witness ==
    /\ call.op = "ReadExe"
    /\ call.status = "Z_BUF_ERROR"
    /\ call.ok

(***************************************************************************)
(* The tag mapping a tag section stands for, read off the section line by  *)
(* line.                                                                   *)
(***************************************************************************)
FirstIndex(s, ch) ==
    CHOOSE k \in 1..Len(s) : s[k] = ch /\ \A j \in 1..(k - 1) : s[j] # ch

\* The lines of s: the pieces between the bytes 0x0A.
RECURSIVE SplitLines(_)
SplitLines(s) ==
    IF 10 \notin Range(s) THEN <<s>>
    ELSE <<SubSeq(s, 1, FirstIndex(s, 10) - 1)>>
            \o SplitLines(SubSeq(s, FirstIndex(s, 10) + 1, Len(s)))

\* s without the bytes <= 0x20 at its two ends.
Trimmed(s) ==
    LET keep == {k \in 1..Len(s) : s[k] > 32}
    IN  IF keep = {} THEN <<>>
        ELSE SubSeq(s, CHOOSE k \in keep : \A j \in keep : k <= j,
                       CHOOSE k \in keep : \A j \in keep : k >= j)

LineName(l) == Trimmed(SubSeq(l, 1, FirstIndex(l, 61) - 1))

LineValue(l) == Trimmed(SubSeq(l, FirstIndex(l, 61) + 1, Len(l)))

\* The values of the lines named n, in order, joined with "\n".
RECURSIVE JoinedValues(_, _)
JoinedValues(lines, n) ==
    IF lines = <<>> THEN <<>>
    ELSE LET rest == JoinedValues(Tail(lines), n)
             more == \E k \in 2..Len(lines) :
                         61 \in Range(lines[k]) /\ LineName(lines[k]) = n
         IN  IF 61 \in Range(Head(lines)) /\ LineName(Head(lines)) = n
             THEN IF more THEN LineValue(Head(lines)) \o <<10>> \o rest
                  ELSE LineValue(Head(lines))
             ELSE rest

ExpectedTags(section) ==
    LET lines == SplitLines(section)
        names == {LineName(lines[k]) :
                     k \in {j \in 1..Len(lines) : 61 \in Range(lines[j])}}
    IN  [n \in names |-> JoinedValues(lines, n)]

\* The bytes after the marker of the loaded file.
TagSection == SubSeq(TrailingRegion, 6, Len(TrailingRegion))

\* C7, as claimed: for every tag section, the mapping has one entry per
\* trimmed name among the lines with '=', holding the trimmed values of the
\* lines of that name joined with "\n" in order of occurrence.
C7_TagsAreTheLinesMerged ==
    (call.op = "Load" /\ call.ok /\ BeginsWithMarker(TrailingRegion))
        => tags = ExpectedTags(TagSection)

\* C7, amended: the same, for every tag section that holds no NUL byte.
C7_TagsAreTheLinesMergedWithoutNul ==
    (call.op = "Load" /\ call.ok /\ BeginsWithMarker(TrailingRegion)
        /\ 0 \notin Range(TagSection))
        => tags = ExpectedTags(TagSection)

\* C7 happens: a section without NUL whose lines "a=b", "b=a", "a=c" give two
\* names, the first with the merged value "b\nc".
C7_Witness ==
    /\ call.op = "Load"
    /\ call.ok
    /\ BeginsWithMarker(TrailingRegion)
    /\ TagSection = <<97, 61, 98, 10, 98, 61, 97, 10, 97, 61, 99>>
    /\ DOMAIN tags = {<<97>>, <<98>>}
    /\ tags[<<97>>] = <<98, 10, 99>>

(***************************************************************************)
(* The claims about Vab::GetInstrPointers.                                 *)
(***************************************************************************)
\* GetInstrPointers has scanned the program table of the bank.
Scanned == pc # "idle" /\ bank.numPrograms <= 128 /\ bank.numVAGs <= 255

\* The slots that hold between 1 and 32 tones.
NonEmptySlots == {i \in DOMAIN bank.tones : bank.tones[i] >= 1 /\ bank.tones[i] <= 32}

\* How many blocks of 512 bytes lie between the tone attribute table
\* (dwOffset + 0x20 + 128 * 16) and the end offset.
BlocksThatFit ==
    IF bank.nEndOffset < bank.dwOffset + 2080 THEN 0
    ELSE (bank.nEndOffset - (bank.dwOffset + 2080)) \div 512

\* The slots reached before the scan stops that hold between 1 and 32 tones.
EmittedSlots ==
    {i \in NonEmptySlots :
        Cardinality({j \in NonEmptySlots : j < i}) < BlocksThatFit}

\* C8: the instruments are the slots with 1 to 32 tones reached before the
\* scan stops, in increasing slot order, the k-th (from 0) at the tone
\* attribute offset of the table plus k * 512; a slot with 0 or more than 32
\* tones emits nothing, moves no offset and does not fail the bank.
C8_InstrumentsArePacked ==
    Scanned =>
        /\ Len(aInstrs) = Cardinality(EmittedSlots)
        /\ \A k \in 1..Len(aInstrs) :
              /\ aInstrs[k].instrNum \in EmittedSlots
              /\ Cardinality({j \in EmittedSlots : j < aInstrs[k].instrNum}) = k - 1
              /\ aInstrs[k].dwOffset = bank.dwOffset + 2080 + (k - 1) * 512
        /\ ret # "false"

\* C8 happens: slot 0 has 33 tones and is skipped, slot 1 is the first
\* instrument, the slots 2..126 are empty, slot 127 is the second.
C8_Witness ==
    /\ Scanned
    /\ DOMAIN bank.tones = {0, 1, 127}
    /\ bank.tones[0] = 33
    /\ Len(aInstrs) = 2
    /\ aInstrs[1].instrNum = 1
    /\ aInstrs[2].instrNum = 127
    /\ aInstrs[2].dwOffset = bank.dwOffset + 2080 + 512

RECURSIVE SumOfValidSizes(_)
SumOfValidSizes(entries) ==
    IF entries = <<>> THEN 0
    ELSE (IF Head(entries).valid THEN Head(entries).size ELSE 0)
            + SumOfValidSizes(Tail(entries))

\* C9: the offset of every entry after the first is the start offset plus the
\* offset and the size of the entry just before it, accepted or rejected,
\* and the total size grows by the sizes of the accepted entries only.
C9_OffsetsChainFromThePreviousEntry ==
    /\ \A k \in 2..Len(vagEntries) :
          vagEntries[k].offset =
              bank.vagTable[1] * 8 + vagEntries[k - 1].offset + vagEntries[k - 1].size
    /\ pc \in {"vagloop", "crashed"} \/ (pc = "done" /\ vagEntries # <<>>)
          => totalVAGSize = bank.vagTable[1] * 8 + SumOfValidSizes(vagEntries)

\* C10: whenever an iteration i > 0 of the loop is about to read
\* vagLocations[i - 1], the vector has more than i - 1 elements.
C10_PreviousLocationExists ==
    (pc = "vagloop" /\ vagIndex > 0 /\ vagIndex < bank.numVAGs)
        => Len(vagLocations) > vagIndex - 1

====
